---- MODULE Spec2Model ----
(***************************************************************************)
(* iTrash kiosk: the HardwareLoop phase state machine                      *)
(* (src/core/hardware_loop.py) running against the shared LocalState store *)
(* (src/api/state.py).                                                     *)
(*                                                                         *)
(* Spec / LiveSpec: three kinds of threads act on the store:               *)
(*   - the polling thread      (HardwareLoop._hardware_loop),              *)
(*   - the classification worker (classify_async, one per dispatch),       *)
(*   - the auto-reset timers   (auto_reset closures, one per scoring).     *)
(* Every state.update / state.get is one critical section of the store's   *)
(* lock, so each is one atomic step; the sleeps between them are the       *)
(* points where the other threads interleave.                              *)
(*                                                                         *)
(* StoreSpec: the LocalState accessors themselves, statement by statement  *)
(* under the store's lock, called concurrently by several threads.         *)
(* SeqStoreSpec: the same accessors called one after the other by a single *)
(* thread, each call applied whole.                                        *)
(* ClassifierSpec: one image going through                                 *)
(* ClassificationManager.process_image_with_feedback                       *)
(* (src/core/ai_classifier.py), external call by external call.            *)
(* DisplaySpec: SimpleMediaDisplay (src/display/media_display.py) driven   *)
(* call by call from the main thread while the phase is written by others. *)
(* FaultSpec / FaultLiveSpec: Spec with hardware calls that can raise.     *)
(* LifecycleSpec: start() and stop() of the HardwareLoop and the threads   *)
(* they spawn.                                                             *)
(* SystemSpec: the polling thread and the worker together with the         *)
(* display's start and tick, in the order of the lifespan.                 *)
(***************************************************************************)
EXTENDS Naturals, FiniteSets, Sequences, TLC

\* Largest number of auto-reset timer threads alive at the same time.
MaxTimers == 2

\* Cap of the per-cycle history counters (dispatches, result writes).
MaxCount == 2

\* Largest number of polling threads start() spawns in one run.
MaxPollers == 3

None == "none"

VALID_COLORS == {"blue", "yellow", "brown"}

\* trash_phases in _handle_bin_detection
trash_phases == {"blue_trash", "yellow_trash", "brown_trash"}

Phases == {"idle", "processing", "error", "reward", "incorrect"} \cup trash_phases

\* phase_to_bin in _handle_bin_detection
phase_to_bin(p) ==
    CASE p = "blue_trash"   -> "blue"
      [] p = "yellow_trash" -> "yellow"
      [] p = "brown_trash"  -> "brown"
      [] OTHER              -> None

\* the if/elif chain of classify_async that turns a result into its phase
result_phase(r) ==
    CASE r = "blue"   -> "blue_trash"
      [] r = "yellow" -> "yellow_trash"
      [] r = "brown"  -> "brown_trash"
      [] OTHER        -> "error"

\* variant of BinOrder: the bins are read brown first
BinOrder_BrownFirst == <<"brown", "yellow", "blue">>

\* the order in which _check_bin_sensors reads the three bins
BinOrder == <<"blue", "yellow", "brown">>

\* what process_image_with_feedback can hand to classify_async:
\* a category, the empty string, or a raised exception (the interface as
\* classify_async handles it; ClassifierSpec shows which of these the
\* ClassificationManager of this repository produces)
ClassifierOutcomes == VALID_COLORS \cup {"", "exception"}

\* states of an auto_reset thread: r_* is the reward closure, i_* the
\* incorrect closure; the suffix names the write it performs next
TimerStates == {"r_idle", "r_reward", "r_lc", "r_led",
                "i_idle", "i_reward", "i_led"}

VARIABLES
    phase,                \* state["phase"]
    last_classification,  \* state["last_classification"]
    reward,               \* state["reward"]
    sensor_status,        \* state["sensor_status"]
    led,                  \* colour last written to the LED strip
    componentsAvailable,  \* self.camera and self.classifier are both set
    pc,                   \* position of the polling thread
    binIdx,               \* which bin _check_bin_sensors is at (1..3)
    rd,                   \* the sensor reading the polling thread just took
    wpc,                  \* position of the classification worker
    wres,                 \* the worker's local `result`
    timers,               \* number of auto_reset threads in each state
    dispatched,           \* history: workers dispatched since the last idle write
    lcWrites,             \* history: results written since the last idle write
    resultEntries,        \* history: result phases entered since the last idle write
    \* LocalState seen statement by statement (StoreSpec)
    kv,                   \* LocalState.state: key -> value
    kvSensors,            \* LocalState.state["sensor_status"]: sensor -> flag
    lock,                 \* LocalState._lock: 0 when free, else the holding thread
    th,                   \* per calling thread: the accessor call it is in
    ser,                  \* history: kv after the calls so far, applied whole in lock order
    serSensors,           \* history: kvSensors likewise
    \* LocalState called by one thread, call by call (SeqStoreSpec)
    call,                 \* the accessor call just made, with what it returned
    prevCall,             \* the call made before it
    written,              \* sensors written since __init__ / reset
    \* one image going through the classifier (ClassifierSpec)
    cpc,                  \* position inside process_image_with_feedback
    responses,            \* what the external calls made for this image returned
    attempt,              \* GPT attempts started for this image
    backoffs,             \* sleeps taken between attempts for this image
    yolo_result,          \* HybridClassifier.classify's local yolo_result
    gpt_result,           \* HybridClassifier.classify's local gpt_result
    outcome,              \* how process_image_with_feedback ended
    \* SimpleMediaDisplay driven call by call (DisplaySpec)
    acc,                  \* SimpleMediaDisplay.acc: the display state selected
    is_running,           \* SimpleMediaDisplay.is_running
    display_initialized,  \* SimpleMediaDisplay.display_initialized
    current_mode,         \* SimpleMediaDisplay.current_mode: "image" or "video"
    needs_clear,          \* SimpleMediaDisplay._needs_clear: the frame is dirty
    video_path,           \* an idle video was found (self.video_path is not None)
    video_cap,            \* the idle video is open (self.video_cap is not None)
    recent_error,         \* time.time() - last_error_time < 5
    lastOp,               \* history: what the display call just made did
    lastRead,             \* history: the phase the latest tick read
    \* HardwareLoop started and stopped (LifecycleSpec)
    hl_is_running,        \* HardwareLoop.is_running
    pollers               \* position of each thread start() has spawned

kvVars == <<kv, kvSensors, lock, th, ser, serSensors, call, prevCall, written>>

clVars == <<cpc, responses, attempt, backoffs, yolo_result, gpt_result, outcome>>

dispVars == <<acc, is_running, display_initialized, current_mode, needs_clear,
              video_path, video_cap, recent_error, lastOp, lastRead>>

loopVars == <<hl_is_running, pollers>>

\* what the HardwareLoop threads never touch
fixed == <<componentsAvailable, kvVars, clVars, dispVars, loopVars>>

hwVars == <<phase, last_classification, reward, sensor_status, led,
            componentsAvailable, pc, binIdx, rd, wpc, wres, timers,
            dispatched, lcWrites, resultEntries>>

store == <<phase, last_classification, reward, sensor_status, led>>
hist  == <<dispatched, lcWrites, resultEntries>>
vars  == <<phase, last_classification, reward, sensor_status, led,
           componentsAvailable, pc, binIdx, rd, wpc, wres, timers,
           dispatched, lcWrites, resultEntries,
           kv, kvSensors, lock, th, ser, serSensors, call, prevCall, written,
           cpc, responses, attempt, backoffs, yolo_result, gpt_result, outcome,
           acc, is_running, display_initialized, current_mode, needs_clear,
           video_path, video_cap, recent_error, lastOp, lastRead,
           hl_is_running, pollers>>

NoRead == [sensor |-> None, val |-> FALSE]

Bump(n) == IF n < MaxCount THEN n + 1 ELSE n

----------------------------------------------------------------------------
(* LocalState *)

\* variant of LocalState.update("phase", v): writing idle leaves
\* last_classification as it is
UpdatePhase_KeepsClassification(v) ==
    /\ phase' = v
    /\ last_classification' = last_classification
    /\ IF v = "idle"
         THEN dispatched' = 0 /\ lcWrites' = 0 /\ resultEntries' = 0
         ELSE /\ resultEntries' = IF v \in trash_phases
                                    THEN Bump(resultEntries) ELSE resultEntries
              /\ UNCHANGED <<dispatched, lcWrites>>

\* LocalState.update("phase", v): writing idle clears last_classification
\* in the same critical section
UpdatePhase(v) ==
    /\ phase' = v
    /\ last_classification' = IF v = "idle" THEN None ELSE last_classification
    /\ IF v = "idle"
         THEN dispatched' = 0 /\ lcWrites' = 0 /\ resultEntries' = 0
         ELSE /\ resultEntries' = IF v \in trash_phases
                                    THEN Bump(resultEntries) ELSE resultEntries
              /\ UNCHANGED <<dispatched, lcWrites>>

\* LocalState.update_sensor_status(sensor, status)
UpdateSensorStatus(sensor, status) ==
    sensor_status' = [sensor_status EXCEPT ![sensor] = status]

\* Number of threads calling the LocalState accessors concurrently.
NumThreads == 2

Threads == 1..NumThreads

\* a nested dict held in LocalState.state (only the reference is stored)
Dict == "<dict>"

\* the four sensors of the default snapshot
DefaultSensors == {"object_detected", "blue_bin", "yellow_bin", "brown_bin"}

\* self.state as LocalState.__init__ builds it
InitialState ==
    [phase |-> "idle", last_classification |-> None, last_classification_ts |-> None,
     reward |-> "False", system_status |-> "initializing", last_disposal |-> Dict,
     sensor_status |-> Dict]

\* self.state as LocalState.reset builds it
ResetState ==
    [phase |-> "idle", last_classification |-> None, last_classification_ts |-> None,
     reward |-> "False", system_status |-> "ready", last_disposal |-> Dict,
     sensor_status |-> Dict]

\* state["sensor_status"] as __init__ and reset build it
ResetSensors == [s \in DefaultSensors |-> FALSE]

\* the calls the concurrent threads make: update(key, value) ...
UpdateInputs ==
    {<<"phase", "idle">>, <<"phase", "processing">>, <<"last_classification", "blue">>,
     <<"last_classification_ts", "t1">>}
\* ... get(key) ...
GetInputs == {"phase", "sensor_status"}
\* ... update_sensor_status(sensor, status) ...
SensorUpdateInputs == {"blue_bin"} \X BOOLEAN
\* ... and get_sensor_status(sensor)
SensorGetInputs == {"blue_bin"}

\* the calls the single thread of SeqStoreSpec makes
SeqPhases == {"idle", "processing", "error", "reward"}
SeqUpdateInputs ==
    ({"phase"} \X SeqPhases)
      \cup {<<"last_classification", "blue">>, <<"last_classification_ts", "t1">>,
            <<"test_key", "test_value">>}
SeqGetInputs == {"phase", "last_classification", "last_classification_ts", "test_key"}
SeqSensorUpdateInputs == {"blue_bin", "lid"} \X BOOLEAN
SeqSensorGetInputs == {"blue_bin", "brown_bin", "lid"}

NoCall == [pc |-> "idle", op |-> None, key |-> None, val |-> None, res |-> None,
           ref |-> FALSE]
NoSeqCall == [op |-> None, key |-> None, val |-> None, res |-> None]

StoreInit ==
    /\ kv = InitialState
    /\ kvSensors = ResetSensors
    /\ lock = 0
    /\ th = [t \in Threads |-> NoCall]
    /\ ser = InitialState
    /\ serSensors = ResetSensors
    /\ call = NoSeqCall
    /\ prevCall = NoSeqCall
    /\ written = {}

\* GPTClassifier.classify(image, max_retries=3)
max_retries == 3

\* TrashClassification.TRASH_DICT
TRASH_DICT ==
    [BIODEGRADABLE |-> "brown", CARDBOARD |-> "blue", CLOTH |-> "blue",
     GLASS |-> "blue", METAL |-> "yellow", PAPER |-> "blue", PLASTIC |-> "yellow"]

\* what the YOLO service can answer: a best prediction of a known class, of
\* a class outside TRASH_DICT, no prediction at all, or the client raises
YoloResponses == DOMAIN TRASH_DICT \cup {"UNKNOWN", "no_predictions", "exception"}

\* what one GPT attempt can meet: a valid label, a label outside
\* VALID_COLORS, a JSON object without trash_class, content that is not JSON,
\* a status other than 200, an exception of requests.post or of the response
\* handling, or an exception of _encode_image_to_base64 before any request
GptResponses ==
    VALID_COLORS \cup {"purple", "", "malformed", "status_500", "exception"}
EncodeError == "encode_error"

ClassifierInit ==
    /\ cpc = "idle"
    /\ responses = <<>>
    /\ attempt = 0
    /\ backoffs = 0
    /\ yolo_result = None
    /\ gpt_result = None
    /\ outcome = None

\* SystemStates: the display state numbers
IDLE == 0
PROCESSING == 1
SHOW_TRASH == 2
USER_CONFIRMATION == 3
SUCCESS == 4
QR_CODES == 5
REWARD == 6
INCORRECT == 7
TIMEOUT == 8
THROW_YELLOW == 9
THROW_BLUE == 10
THROW_BROWN == 11

\* what a display call that has not happened looks like
NoOp == [name |-> None, arg |-> IDLE, force |-> FALSE, read |-> None,
         prev |-> None, led |-> 0,
         switched |-> FALSE, dirty |-> FALSE, attempts |-> 0,
         skipped |-> FALSE, recovered |-> FALSE, drawn |-> 0, redrawn |-> 0,
         res |-> None, outcome |-> None]

\* the state after SimpleMediaDisplay.__init__: `ok` is whether _init_display
\* got a screen, `video` whether display/videos/intro.mp4 exists
DisplayInit(ok, video) ==
    /\ acc = 0
    /\ is_running = FALSE
    /\ display_initialized = ok
    /\ current_mode = "image"
    /\ needs_clear = TRUE
    /\ video_path = video
    /\ video_cap = FALSE
    /\ recent_error = FALSE
    /\ lastOp = NoOp
    /\ lastRead = None

\* the state after LocalState.__init__ and the start of _hardware_loop
\* (phase written idle, LED strip cleared by LEDStrip.__init__)
CoreInit ==
    /\ phase = "idle"
    /\ last_classification = None
    /\ reward = FALSE
    /\ sensor_status = [s \in {"object_detected", "blue_bin", "yellow_bin", "brown_bin"}
                          |-> FALSE]
    /\ led = "off"
    /\ componentsAvailable \in BOOLEAN
    /\ pc = "poll"
    /\ binIdx = 1
    /\ rd = NoRead
    /\ wpc = "dead"
    /\ wres = None
    /\ timers = [t \in TimerStates |-> 0]
    /\ dispatched = 0
    /\ lcWrites = 0
    /\ resultEntries = 0
    /\ StoreInit
    /\ ClassifierInit
    /\ hl_is_running = TRUE
    /\ pollers = <<"body">>

\* the state after construction, the display with a screen and an idle video
Init == CoreInit /\ DisplayInit(TRUE, TRUE)

\* the state after construction when camera and classifier initialised
InitAvailable == Init /\ componentsAvailable = TRUE

----------------------------------------------------------------------------
(* Auto-reset timers *)

RECURSIVE SumOver(_, _)
SumOver(f, S) ==
    IF S = {} THEN 0
    ELSE LET x == CHOOSE y \in S : TRUE IN f[x] + SumOver(f, S \ {x})

LiveTimers == SumOver(timers, TimerStates)

\* threading.Thread(target=auto_reset, daemon=True).start()
StartTimer(kind) ==
    timers' = [timers EXCEPT ![kind] = @ + 1]

MoveTimer(from, to) ==
    timers' = [timers EXCEPT ![from] = @ - 1, ![to] = @ + 1]

EndTimer(from) ==
    timers' = [timers EXCEPT ![from] = @ - 1]

\* auto_reset: sleep, then state.update("phase", "idle")
TimerIdle(k, next) ==
    /\ timers[k] > 0
    /\ UpdatePhase("idle")
    /\ MoveTimer(k, next)
    /\ UNCHANGED <<reward, sensor_status, led, fixed,
                   pc, binIdx, rd, wpc, wres>>

\* auto_reset: state.update("reward", False)
TimerReward(k, next) ==
    /\ timers[k] > 0
    /\ reward' = FALSE
    /\ MoveTimer(k, next)
    /\ UNCHANGED <<phase, last_classification, sensor_status, led,
                   fixed, pc, binIdx, rd, wpc, wres>>
    /\ UNCHANGED hist

\* auto_reset (reward closure only): state.update("last_classification", None)
TimerClearClassification ==
    /\ timers["r_lc"] > 0
    /\ last_classification' = None
    /\ MoveTimer("r_lc", "r_led")
    /\ UNCHANGED <<phase, reward, sensor_status, led,
                   fixed, pc, binIdx, rd, wpc, wres>>
    /\ UNCHANGED hist

\* auto_reset: get_led_strip().clear_all(), then the thread ends
TimerClearLeds(k) ==
    /\ timers[k] > 0
    /\ led' = "off"
    /\ EndTimer(k)
    /\ UNCHANGED <<phase, last_classification, reward, sensor_status,
                   fixed, pc, binIdx, rd, wpc, wres>>
    /\ UNCHANGED hist

RewardTimerIdle      == TimerIdle("r_idle", "r_reward")
RewardTimerReward    == TimerReward("r_reward", "r_lc")
RewardTimerClearLeds == TimerClearLeds("r_led")
IncorrectTimerIdle      == TimerIdle("i_idle", "i_reward")
IncorrectTimerReward    == TimerReward("i_reward", "i_led")
IncorrectTimerClearLeds == TimerClearLeds("i_led")

TimerThread ==
    \/ RewardTimerIdle
    \/ RewardTimerReward
    \/ TimerClearClassification
    \/ RewardTimerClearLeds
    \/ IncorrectTimerIdle
    \/ IncorrectTimerReward
    \/ IncorrectTimerClearLeds

----------------------------------------------------------------------------
(* Classification worker: classify_async *)

WorkerAlive == wpc # "dead"

\* the worker has not yet written its outcome to state["phase"]
WorkerNotReported == wpc \in {"begin", "classify", "store", "show", "set_phase", "fail"}

\* the worker still has a write to the store or to the LED strip ahead of it
WorkerPending == wpc \notin {"dead", "close"}

WorkerFrame == <<sensor_status, fixed, pc, binIdx, rd, timers>>

\* process_image_with_feedback: set_color_all(white) before the classification
WorkerBegin ==
    /\ wpc = "begin"
    /\ led' = "white"
    /\ wpc' = "classify"
    /\ UNCHANGED <<phase, last_classification, reward, wres>>
    /\ UNCHANGED WorkerFrame
    /\ UNCHANGED hist

\* process_image_with_feedback returns r (after its green/red flash and
\* clear_all) or raises; `if result and result in [...]` picks the branch
WorkerClassify(r) ==
    /\ wpc = "classify"
    /\ wres' = r
    /\ led' = IF r = "exception" THEN led ELSE "off"
    /\ wpc' = IF r \in VALID_COLORS THEN "store" ELSE "fail"
    /\ UNCHANGED <<phase, last_classification, reward>>
    /\ UNCHANGED WorkerFrame
    /\ UNCHANGED hist

\* state.update("last_classification", result), then the result delay
WorkerStoreResult ==
    /\ wpc = "store"
    /\ last_classification' = wres
    /\ lcWrites' = Bump(lcWrites)
    /\ wpc' = "show"
    /\ UNCHANGED <<phase, reward, led, wres, dispatched, resultEntries>>
    /\ UNCHANGED WorkerFrame

\* led_strip.set_color_all(<colour of result>)
WorkerShowColor ==
    /\ wpc = "show"
    /\ led' = wres
    /\ wpc' = "set_phase"
    /\ UNCHANGED <<phase, last_classification, reward, wres>>
    /\ UNCHANGED WorkerFrame
    /\ UNCHANGED hist

\* state.update("phase", "<result>_trash")
WorkerSetPhase ==
    /\ wpc = "set_phase"
    /\ UpdatePhase(result_phase(wres))
    /\ wpc' = "close"
    /\ UNCHANGED <<reward, led, wres>>
    /\ UNCHANGED WorkerFrame

\* else-branch and except-branch: state.update("phase", "error")
WorkerFail ==
    /\ wpc = "fail"
    /\ UpdatePhase("error")
    /\ wpc' = "fail_clear"
    /\ UNCHANGED <<reward, led, wres>>
    /\ UNCHANGED WorkerFrame

\* else-branch and except-branch: get_led_strip().clear_all()
WorkerFailClear ==
    /\ wpc = "fail_clear"
    /\ led' = "off"
    /\ wpc' = "close"
    /\ UNCHANGED <<phase, last_classification, reward, wres>>
    /\ UNCHANGED WorkerFrame
    /\ UNCHANGED hist

\* finally: loop.close(); the thread ends and is_alive() turns false
WorkerExit ==
    /\ wpc = "close"
    /\ wpc' = "dead"
    /\ wres' = None
    /\ UNCHANGED store
    /\ UNCHANGED WorkerFrame
    /\ UNCHANGED hist

WorkerThread ==
    \/ WorkerBegin
    \/ \E r \in ClassifierOutcomes : WorkerClassify(r)
    \/ WorkerStoreResult
    \/ WorkerShowColor
    \/ WorkerSetPhase
    \/ WorkerFail
    \/ WorkerFailClear
    \/ WorkerExit

----------------------------------------------------------------------------
(* Polling thread: _hardware_loop, _check_bin_sensors,                     *)
(* _handle_bin_detection, _process_trash_detection                         *)

PollFrame == <<fixed, wres>>

BinFlag(b) ==
    CASE b = "blue"   -> "blue_bin"
      [] b = "yellow" -> "yellow_bin"
      [] b = "brown"  -> "brown_bin"

\* leave one bin of _check_bin_sensors: on to the next bin, or after the
\* third one sleep 0.1 s and start the next iteration of the loop
NextBin ==
    IF binIdx < Len(BinOrder)
      THEN pc' = "bins" /\ binIdx' = binIdx + 1
      ELSE pc' = "poll" /\ binIdx' = 1

\* variant of HonourTrigger: the object trigger is honoured in every phase
HonourTrigger_AnyPhase(current_phase, obj) == obj

\* `current_phase == "idle" and proximity_sensors.detect_object_proximity()`
HonourTrigger(current_phase, obj) == current_phase = "idle" /\ obj

\* top of the loop: state.get("phase"), read the object sensor
PollObject(obj) ==
    /\ pc = "poll"
    /\ rd' = [sensor |-> "object", val |-> obj]
    /\ IF HonourTrigger(phase, obj)
         THEN pc' = "debounce" /\ binIdx' = binIdx
         ELSE pc' = "bins" /\ binIdx' = 1
    /\ UNCHANGED store
    /\ UNCHANGED <<wpc, timers>>
    /\ UNCHANGED PollFrame
    /\ UNCHANGED hist

\* after IDLE_TO_PROCESSING_DELAY: state.update("phase", "processing")
StartProcessing ==
    /\ pc = "debounce"
    /\ UpdatePhase("processing")
    /\ pc' = "mark"
    /\ rd' = NoRead
    /\ UNCHANGED <<reward, sensor_status, led, binIdx, wpc, timers>>
    /\ UNCHANGED PollFrame

\* state.update_sensor_status("object_detected", True)
MarkObjectDetected ==
    /\ pc = "mark"
    /\ UpdateSensorStatus("object_detected", TRUE)
    /\ pc' = "white"
    /\ UNCHANGED <<phase, last_classification, reward, led, binIdx, rd, wpc, timers>>
    /\ UNCHANGED PollFrame
    /\ UNCHANGED hist

\* led_strip.set_color_all((255, 255, 255))
ShowWhite ==
    /\ pc = "white"
    /\ led' = "white"
    /\ pc' = "process"
    /\ UNCHANGED <<phase, last_classification, reward, sensor_status, binIdx, rd,
                   wpc, timers>>
    /\ UNCHANGED PollFrame
    /\ UNCHANGED hist

\* _process_trash_detection: `if not self.camera or not self.classifier`
ProcessUnavailable ==
    /\ pc = "process"
    /\ ~componentsAvailable
    /\ UpdatePhase("error")
    /\ pc' = "bins" /\ binIdx' = 1
    /\ UNCHANGED <<reward, sensor_status, led, rd, wpc, timers>>
    /\ UNCHANGED PollFrame

\* _process_trash_detection: capture_image() returned None
CaptureFailed ==
    /\ pc = "process"
    /\ componentsAvailable
    /\ UpdatePhase("error")
    /\ pc' = "bins" /\ binIdx' = 1
    /\ UNCHANGED <<reward, sensor_status, led, rd, wpc, timers>>
    /\ UNCHANGED PollFrame

\* _process_trash_detection: a frame was captured; classify_thread.start().
\* An earlier worker that has only loop.close() left has no effect any more
\* and classify_thread now names the new thread.
DispatchWorker ==
    /\ pc = "process"
    /\ componentsAvailable
    /\ ~WorkerPending
    /\ wpc' = "begin"
    /\ wres' = None
    /\ dispatched' = Bump(dispatched)
    /\ pc' = "join"
    /\ UNCHANGED store
    /\ UNCHANGED <<binIdx, rd, timers, lcWrites, resultEntries, fixed>>

\* classify_thread.join(timeout=30) returns because the worker ended;
\* is_alive() is false and nothing more is done
JoinFinished ==
    /\ pc = "join"
    /\ ~WorkerAlive
    /\ pc' = "bins" /\ binIdx' = 1
    /\ UNCHANGED store
    /\ UNCHANGED <<rd, wpc, timers>>
    /\ UNCHANGED PollFrame
    /\ UNCHANGED hist

\* classify_thread.join(timeout=30) returns because the 30 s ran out
JoinTimeout ==
    /\ pc = "join"
    /\ WorkerAlive
    /\ pc' = "alive_check"
    /\ UNCHANGED store
    /\ UNCHANGED <<binIdx, rd, wpc, timers>>
    /\ UNCHANGED PollFrame
    /\ UNCHANGED hist

\* `if classify_thread.is_alive():`
AliveCheck ==
    /\ pc = "alive_check"
    /\ IF WorkerAlive
         THEN pc' = "timeout_error" /\ binIdx' = binIdx
         ELSE pc' = "bins" /\ binIdx' = 1
    /\ UNCHANGED store
    /\ UNCHANGED <<rd, wpc, timers>>
    /\ UNCHANGED PollFrame
    /\ UNCHANGED hist

\* variant of TimeoutError: the timeout branch leaves phase as it is
TimeoutError_NoWrite ==
    /\ pc = "timeout_error"
    /\ pc' = "timeout_clear"
    /\ UNCHANGED <<phase, last_classification, reward, sensor_status, led, binIdx,
                   rd, wpc, timers>>
    /\ UNCHANGED PollFrame
    /\ UNCHANGED hist

\* timeout branch: state.update("phase", "error")
TimeoutError ==
    /\ pc = "timeout_error"
    /\ UpdatePhase("error")
    /\ pc' = "timeout_clear"
    /\ UNCHANGED <<reward, sensor_status, led, binIdx, rd, wpc, timers>>
    /\ UNCHANGED PollFrame

\* timeout branch: get_led_strip().clear_all()
TimeoutClear ==
    /\ pc = "timeout_clear"
    /\ led' = "off"
    /\ pc' = "bins" /\ binIdx' = 1
    /\ UNCHANGED <<phase, last_classification, reward, sensor_status, rd, wpc, timers>>
    /\ UNCHANGED PollFrame
    /\ UNCHANGED hist

\* variant of BinBranch: any bin counts as the correct one
BinBranch_AnyBin(current_phase, bin_type) ==
    IF current_phase \in trash_phases THEN "rw_reward" ELSE "skip"

\* _handle_bin_detection: which branch a trigger of bin_type takes when the
\* phase it reads is current_phase
BinBranch(current_phase, bin_type) ==
    IF current_phase \in trash_phases
      THEN IF bin_type = phase_to_bin(current_phase) THEN "rw_reward" ELSE "in_phase"
      ELSE "skip"

\* variant of RecordedFlag: the flag is set on a trigger and never cleared
RecordedFlag_Sticky(reading) == TRUE

\* the flag _check_bin_sensors records for a reading
RecordedFlag(reading) == reading

\* _check_bin_sensors, one bin: read the sensor, record its flag and, on a
\* trigger, enter _handle_bin_detection (state.get("phase"))
CheckBin(v) ==
    LET b == BinOrder[binIdx] IN
    /\ pc = "bins"
    /\ UpdateSensorStatus(BinFlag(b), RecordedFlag(v))
    /\ rd' = [sensor |-> b, val |-> v]
    /\ IF v /\ BinBranch(phase, b) # "skip"
         THEN pc' = BinBranch(phase, b) /\ binIdx' = binIdx
         ELSE NextBin
    /\ UNCHANGED <<phase, last_classification, reward, led, wpc, timers>>
    /\ UNCHANGED PollFrame
    /\ UNCHANGED hist

\* correct bin: state.update("reward", True)
RewardSet ==
    /\ pc = "rw_reward"
    /\ reward' = TRUE
    /\ pc' = "rw_phase"
    /\ UNCHANGED <<phase, last_classification, sensor_status, led, binIdx, rd,
                   wpc, timers>>
    /\ UNCHANGED PollFrame
    /\ UNCHANGED hist

\* correct bin: state.update("phase", "reward")
RewardPhase ==
    /\ pc = "rw_phase"
    /\ UpdatePhase("reward")
    /\ pc' = "rw_anim"
    /\ UNCHANGED <<reward, sensor_status, led, binIdx, rd, wpc, timers>>
    /\ UNCHANGED PollFrame

\* correct bin: show_success_animation() (green glow, fades out to dark)
RewardAnimation ==
    /\ pc = "rw_anim"
    /\ led' = "off"
    /\ pc' = "rw_timer"
    /\ UNCHANGED <<phase, last_classification, reward, sensor_status, binIdx, rd,
                   wpc, timers>>
    /\ UNCHANGED PollFrame
    /\ UNCHANGED hist

\* variant: the reward branch returns without starting the auto_reset thread
RewardTimerStart_NoTimer ==
    /\ pc = "rw_timer"
    /\ NextBin
    /\ UNCHANGED store
    /\ UNCHANGED <<rd, wpc, timers>>
    /\ UNCHANGED PollFrame
    /\ UNCHANGED hist

\* correct bin: start the auto_reset thread, return to _check_bin_sensors
RewardTimerStart ==
    /\ pc = "rw_timer"
    /\ LiveTimers < MaxTimers
    /\ StartTimer("r_idle")
    /\ NextBin
    /\ UNCHANGED store
    /\ UNCHANGED <<rd, wpc>>
    /\ UNCHANGED PollFrame
    /\ UNCHANGED hist

\* wrong bin: state.update("phase", "incorrect")
IncorrectPhase ==
    /\ pc = "in_phase"
    /\ UpdatePhase("incorrect")
    /\ pc' = "in_anim"
    /\ UNCHANGED <<reward, sensor_status, led, binIdx, rd, wpc, timers>>
    /\ UNCHANGED PollFrame

\* wrong bin: show_error_animation() (red blinking, ends with clear_all)
IncorrectAnimation ==
    /\ pc = "in_anim"
    /\ led' = "off"
    /\ pc' = "in_timer"
    /\ UNCHANGED <<phase, last_classification, reward, sensor_status, binIdx, rd,
                   wpc, timers>>
    /\ UNCHANGED PollFrame
    /\ UNCHANGED hist

\* wrong bin: start the auto_reset thread, return to _check_bin_sensors
IncorrectTimerStart ==
    /\ pc = "in_timer"
    /\ LiveTimers < MaxTimers
    /\ StartTimer("i_idle")
    /\ NextBin
    /\ UNCHANGED store
    /\ UNCHANGED <<rd, wpc>>
    /\ UNCHANGED PollFrame
    /\ UNCHANGED hist

PollingThread ==
    \/ \E obj \in BOOLEAN : PollObject(obj)
    \/ StartProcessing
    \/ MarkObjectDetected
    \/ ShowWhite
    \/ ProcessUnavailable
    \/ CaptureFailed
    \/ DispatchWorker
    \/ JoinFinished
    \/ JoinTimeout
    \/ AliveCheck
    \/ TimeoutError
    \/ TimeoutClear
    \/ \E v \in BOOLEAN : CheckBin(v)
    \/ RewardSet
    \/ RewardPhase
    \/ RewardAnimation
    \/ RewardTimerStart
    \/ IncorrectPhase
    \/ IncorrectAnimation
    \/ IncorrectTimerStart

----------------------------------------------------------------------------

Next ==
    \/ PollingThread
    \/ WorkerThread
    \/ TimerThread

Spec == Init /\ [][Next]_vars

\* the threads are scheduled by the operating system: each one that can
\* take a step eventually does
LiveSpec ==
    /\ Init /\ [][Next]_vars
    /\ WF_vars(PollingThread)
    /\ WF_vars(WorkerThread)
    /\ WF_vars(TimerThread)

TypeOK ==
    /\ phase \in Phases
    /\ last_classification \in VALID_COLORS \cup {None}
    /\ reward \in BOOLEAN
    /\ led \in {"off", "white"} \cup VALID_COLORS
    /\ binIdx \in 1..Len(BinOrder)
    /\ LiveTimers <= MaxTimers

\* a worker is never dispatched while an earlier one still has a write ahead
\* of it, so one worker position is enough
SingleWorker == pc = "process" => ~WorkerPending

----------------------------------------------------------------------------
(* Properties *)

\* the polling thread takes a step
PollStep == <<pc, binIdx>>' # <<pc, binIdx>>

\* the classification worker takes a step (not its dispatch)
WorkerStep == wpc' # wpc /\ wpc' # "begin"

\* the join timeout has expired on a worker that still has writes ahead:
\* the polling thread has left _process_trash_detection without it
TimedOut == WorkerPending /\ pc \notin {"join", "alive_check", "timeout_error"}

\* C1: once the timeout has forced phase to error, a step of the late
\* worker changes neither phase, nor last_classification, nor the LED colour.
C1_LateResultDiscarded ==
    [][(TimedOut /\ WorkerStep) =>
          /\ phase' = phase
          /\ last_classification' = last_classification
          /\ led' = led]_vars

\* C2: whenever phase is error it eventually becomes idle.
C2_ErrorLeadsToIdle == (phase = "error") ~> (phase = "idle")

\* C3: in the successful cycle reward is followed by qrcode, and the cycle
\* returns to idle from qrcode only.
C3_RewardThenQrcode ==
    [][/\ (phase = "reward" /\ phase' # phase) => phase' = "qrcode"
       /\ (phase' = "idle" /\ phase \in {"reward", "qrcode"} \cup trash_phases)
             => phase = "qrcode"]_vars

\* C4: the polling thread is never suspended waiting for a running
\* classification worker.
C4_PollingNeverWaitsOnWorker == ~(pc = "join" /\ WorkerAlive)

\* C5: when the join timeout expires on a live worker the polling thread
\* takes the timeout branch, which writes phase = error; if the worker has
\* not reported by then, that write moves phase from processing to error.
C5_TimeoutForcesError ==
    [][/\ (pc = "alive_check" /\ PollStep /\ WorkerAlive) => pc' = "timeout_error"
       /\ (pc = "timeout_error" /\ PollStep) =>
             /\ phase' = "error"
             /\ WorkerNotReported => phase = "processing"]_vars

C5_Witness == pc = "timeout_clear" /\ phase = "error" /\ WorkerNotReported

\* C6: phase becomes processing only from idle, a worker is dispatched only
\* in the processing phase that follows, and an object-sensor reading taken
\* in any other phase than idle changes nothing in the store or the workers.
C6_ObjectTriggerOnlyInIdle ==
    [][/\ (phase' = "processing" /\ phase # "processing") => phase = "idle"
       /\ (wpc' = "begin" /\ wpc # "begin") => phase = "processing"
       /\ (pc = "poll" /\ PollStep /\ phase # "idle") =>
             /\ pc' = "bins"
             /\ UNCHANGED <<store, wpc, timers>>]_vars

C6_Witness ==
    /\ rd = [sensor |-> "object", val |-> TRUE]
    /\ pc = "bins"
    /\ phase \in trash_phases

\* C7: with phase = result_c a trigger of bin c leads to the write of
\* reward and a trigger of another bin to the write of incorrect; the
\* expected bin is the one of the current phase, still in place at the write.
C7_BinScoring ==
    [][/\ (pc = "bins" /\ PollStep /\ rd'.val /\ phase \in trash_phases) =>
             pc' = IF rd'.sensor = phase_to_bin(phase) THEN "rw_reward" ELSE "in_phase"
       /\ (pc = "rw_phase" /\ PollStep) =>
             /\ phase \in trash_phases
             /\ BinOrder[binIdx] = phase_to_bin(phase)
             /\ phase' = "reward"
       /\ (pc = "in_phase" /\ PollStep) =>
             /\ phase \in trash_phases
             /\ BinOrder[binIdx] # phase_to_bin(phase)
             /\ phase' = "incorrect"]_vars

C7_Witness ==
    /\ pc = "rw_anim"
    /\ phase = "reward"
    /\ rd = [sensor |-> "yellow", val |-> TRUE]
    /\ timers["i_reward"] > 0

C9_MonotonicCycle ==
    [][/\ (phase' = "reward" /\ phase # "reward") => phase \in trash_phases
       /\ (phase' \in trash_phases /\ phase' # phase) => phase = "processing"]_vars

PendingResets(k) == timers[k]

\* one step of the bin handler or of a timer, as C11 requires it:
\* a display phase is entered only by the bin handler on its way to start a
\* timer; the handler leaves that point by starting exactly one; a timer is
\* started nowhere else; a started timer writes idle, once, and moves on
AutoResetStep(display, idleTimer, atPhase, atAnim, atTimer) ==
    /\ (phase' = display /\ phase # display) => (pc = atPhase /\ pc' = atAnim)
    /\ (pc = atAnim) => (pc' \in {atAnim, atTimer})
    /\ (pc = atTimer /\ pc' # atTimer)
          => PendingResets(idleTimer)' = PendingResets(idleTimer) + 1
    /\ (PendingResets(idleTimer)' > PendingResets(idleTimer))
          => (pc = atTimer /\ pc' # atTimer)
    /\ (PendingResets(idleTimer)' < PendingResets(idleTimer))
          => /\ PendingResets(idleTimer)' = PendingResets(idleTimer) - 1
             /\ phase' = "idle"

TimerWritesIdle(idleTimer) == PendingResets(idleTimer)' < PendingResets(idleTimer)

\* C12: when an auto-reset thread writes phase = idle the phase was idle or
\* the display phase whose entry started that thread; no step takes
\* processing or a result phase of a newer cycle back to idle.
C12_TimerWriteHarmless ==
    [][/\ TimerWritesIdle("r_idle") => phase \in {"idle", "reward"}
       /\ TimerWritesIdle("i_idle") => phase \in {"idle", "incorrect"}
       /\ (phase \in {"processing"} \cup trash_phases) => phase' # "idle"]_vars

\* a reward auto-reset has written idle and is still running while the next
\* cycle is already processing
C12_Witness ==
    /\ phase = "processing"
    /\ timers["r_reward"] = 1
    /\ dispatched > 0

----------------------------------------------------------------------------
(* LocalState: src/api/state.py                                            *)

\* dict assignment d[key] = value
DictSet(d, key, value) ==
    [k \in DOMAIN d \cup {key} |-> IF k = key THEN value ELSE d[k]]

\* dict.get(key, default)
DictGet(d, key, default) == IF key \in DOMAIN d THEN d[key] ELSE default

\* variant: a store that refuses to leave the reward phase except for idle
ApplyUpdate_Guarded(d, key, value) ==
    IF key = "phase" /\ d["phase"] = "reward" /\ value # "idle"
      THEN d
      ELSE LET d1 == DictSet(d, key, value) IN
           IF key = "phase" /\ value = "idle"
             THEN DictSet(DictSet(d1, "last_classification", None),
                          "last_classification_ts", None)
             ELSE d1

\* the body of LocalState.update as one assignment
ApplyUpdate(d, key, value) ==
    LET d1 == DictSet(d, key, value) IN
    IF key = "phase" /\ value = "idle"
      THEN DictSet(DictSet(d1, "last_classification", None),
                   "last_classification_ts", None)
      ELSE d1

\* the body of LocalState.update_sensor_status as one assignment
ApplySensorUpdate(d, sensor, status) == DictSet(d, sensor, status)

\* variant: an unknown sensor reads as set
SensorStatusOf_DefaultTrue(d, sensor) == DictGet(d, sensor, TRUE)

\* the body of LocalState.get_sensor_status
SensorStatusOf(d, sensor) == DictGet(d, sensor, FALSE)

\* variant: reset writes the defaults into the existing dict
ApplyReset_Merge(d) ==
    [k \in DOMAIN d \cup DOMAIN ResetState |->
        IF k \in DOMAIN ResetState THEN ResetState[k] ELSE d[k]]

\* the body of LocalState.reset: self.state is replaced by a new dict
ApplyReset(d) == ResetState

----------------------------------------------------------------------------
(* StoreSpec: statement by statement, several threads *)

StoreFrame == <<hwVars, call, prevCall, written, clVars, dispVars, loopVars>>

\* a thread calls an accessor and blocks on `with self._lock`
Call(t, op, key, val) ==
    /\ th[t].pc \in {"idle", "done"}
    /\ th' = [th EXCEPT ![t] = [pc |-> "wait", op |-> op, key |-> key, val |-> val,
                                res |-> None, ref |-> FALSE]]
    /\ UNCHANGED <<kv, kvSensors, lock, ser, serSensors>>
    /\ UNCHANGED StoreFrame

\* first statement of the body of each accessor
FirstStatement(op) ==
    CASE op = "update"               -> "upd_write"
      [] op = "get"                  -> "get_read"
      [] op = "update_sensor_status" -> "sens_write"
      [] op = "get_sensor_status"    -> "sens_read"
      [] op = "reset"                -> "reset_write"

\* variant: a lock that never blocks
LockFree_Always(t) == TRUE

\* threading.Lock: acquired only when free
LockFree(t) == lock = 0

\* `with self._lock:` entered; the history applies the whole call here
Acquire(t) ==
    /\ th[t].pc = "wait"
    /\ LockFree(t)
    /\ lock' = t
    /\ th' = [th EXCEPT ![t].pc = FirstStatement(th[t].op)]
    /\ ser' = CASE th[t].op = "update" -> ApplyUpdate(ser, th[t].key, th[t].val)
                [] th[t].op = "reset"  -> ApplyReset(ser)
                [] OTHER               -> ser
    /\ serSensors' = CASE th[t].op = "update_sensor_status"
                            -> ApplySensorUpdate(serSensors, th[t].key, th[t].val)
                       [] th[t].op = "reset" -> ResetSensors
                       [] OTHER -> serSensors
    /\ UNCHANGED <<kv, kvSensors>>
    /\ UNCHANGED StoreFrame

\* the `with` block ends after the last statement: the lock is released if
\* this thread holds it
Released(t) == IF lock = t THEN 0 ELSE lock

\* variant: update without the phase = idle special case
UpdateWrite_NoClear(t) ==
    /\ th[t].pc = "upd_write"
    /\ kv' = DictSet(kv, th[t].key, th[t].val)
    /\ th' = [th EXCEPT ![t].pc = "done"]
    /\ lock' = Released(t)
    /\ UNCHANGED <<kvSensors, ser, serSensors>>
    /\ UNCHANGED StoreFrame

\* update: self.state[key] = value (last statement unless phase = idle)
UpdateWrite(t) ==
    /\ th[t].pc = "upd_write"
    /\ kv' = DictSet(kv, th[t].key, th[t].val)
    /\ IF th[t].key = "phase" /\ th[t].val = "idle"
         THEN th' = [th EXCEPT ![t].pc = "upd_clear_lc"] /\ lock' = lock
         ELSE th' = [th EXCEPT ![t].pc = "done"] /\ lock' = Released(t)
    /\ UNCHANGED <<kvSensors, ser, serSensors>>
    /\ UNCHANGED StoreFrame

\* update, phase = idle: self.state["last_classification"] = None
UpdateClearClassification(t) ==
    /\ th[t].pc = "upd_clear_lc"
    /\ kv' = DictSet(kv, "last_classification", None)
    /\ th' = [th EXCEPT ![t].pc = "upd_clear_ts"]
    /\ UNCHANGED <<kvSensors, lock, ser, serSensors>>
    /\ UNCHANGED StoreFrame

\* update, phase = idle: self.state["last_classification_ts"] = None
UpdateClearTimestamp(t) ==
    /\ th[t].pc = "upd_clear_ts"
    /\ kv' = DictSet(kv, "last_classification_ts", None)
    /\ th' = [th EXCEPT ![t].pc = "done"]
    /\ lock' = Released(t)
    /\ UNCHANGED <<kvSensors, ser, serSensors>>
    /\ UNCHANGED StoreFrame

\* get: return self.state.get(key, default); a nested dict is returned by
\* reference
GetRead(t) ==
    /\ th[t].pc = "get_read"
    /\ th' = [th EXCEPT ![t].pc = "done",
                        ![t].res = DictGet(kv, th[t].key, None),
                        ![t].ref = (DictGet(kv, th[t].key, None) = Dict)]
    /\ lock' = Released(t)
    /\ UNCHANGED <<kv, kvSensors, ser, serSensors>>
    /\ UNCHANGED StoreFrame

\* update_sensor_status: self.state["sensor_status"][sensor] = status
\* ("sensor_status" is always a key of the dict: no call removes it)
SensorWrite(t) ==
    /\ th[t].pc = "sens_write"
    /\ kvSensors' = DictSet(kvSensors, th[t].key, th[t].val)
    /\ th' = [th EXCEPT ![t].pc = "done"]
    /\ lock' = Released(t)
    /\ UNCHANGED <<kv, ser, serSensors>>
    /\ UNCHANGED StoreFrame

\* get_sensor_status: self.state.get("sensor_status", {}).get(sensor, False)
SensorRead(t) ==
    /\ th[t].pc = "sens_read"
    /\ th' = [th EXCEPT ![t].pc = "done",
                        ![t].res = SensorStatusOf(kvSensors, th[t].key)]
    /\ lock' = Released(t)
    /\ UNCHANGED <<kv, kvSensors, ser, serSensors>>
    /\ UNCHANGED StoreFrame

\* reset: self.state = {...}; references handed out before now point to the
\* discarded dicts
ResetWrite(t) ==
    /\ th[t].pc = "reset_write"
    /\ kv' = ApplyReset(kv)
    /\ kvSensors' = ResetSensors
    /\ th' = [u \in Threads |->
                IF u = t THEN [th[t] EXCEPT !.pc = "done"]
                ELSE [th[u] EXCEPT !.ref = FALSE]]
    /\ lock' = Released(t)
    /\ UNCHANGED <<ser, serSensors>>
    /\ UNCHANGED StoreFrame

\* the caller of get("sensor_status") starts reading the dict it was handed
\* (tests/test_complete_system.py prints it; api/server.py does the same
\* with get("last_disposal"))
DerefBegin(t) ==
    /\ th[t].pc = "done"
    /\ th[t].ref
    /\ th' = [th EXCEPT ![t].pc = "deref"]
    /\ UNCHANGED <<kv, kvSensors, lock, ser, serSensors>>
    /\ UNCHANGED StoreFrame

\* ... and has read it
DerefEnd(t) ==
    /\ th[t].pc = "deref"
    /\ th' = [th EXCEPT ![t] = NoCall]
    /\ UNCHANGED <<kv, kvSensors, lock, ser, serSensors>>
    /\ UNCHANGED StoreFrame

CallUpdate(t) == \E i \in UpdateInputs : Call(t, "update", i[1], i[2])
CallGet(t) == \E k \in GetInputs : Call(t, "get", k, None)
CallUpdateSensorStatus(t) ==
    \E i \in SensorUpdateInputs : Call(t, "update_sensor_status", i[1], i[2])
CallGetSensorStatus(t) == \E k \in SensorGetInputs : Call(t, "get_sensor_status", k, None)
CallReset(t) == Call(t, "reset", None, None)

StoreNext ==
    \E t \in Threads :
        \/ CallUpdate(t)
        \/ CallGet(t)
        \/ CallUpdateSensorStatus(t)
        \/ CallGetSensorStatus(t)
        \/ CallReset(t)
        \/ Acquire(t)
        \/ UpdateWrite(t)
        \/ UpdateClearClassification(t)
        \/ UpdateClearTimestamp(t)
        \/ GetRead(t)
        \/ SensorWrite(t)
        \/ SensorRead(t)
        \/ ResetWrite(t)
        \/ DerefBegin(t)
        \/ DerefEnd(t)

StoreSpec == InitAvailable /\ [][StoreNext]_vars

----------------------------------------------------------------------------
(* SeqStoreSpec: one thread, call after call *)

SeqFrame == <<hwVars, lock, th, ser, serSensors, clVars, dispVars, loopVars>>

\* the call is recorded with what it returned
Record(op, key, val, res) ==
    /\ prevCall' = call
    /\ call' = [op |-> op, key |-> key, val |-> val, res |-> res]

\* state.update(key, value)
SeqUpdate(key, value) ==
    /\ kv' = ApplyUpdate(kv, key, value)
    /\ Record("update", key, value, None)
    /\ UNCHANGED <<kvSensors, written>>
    /\ UNCHANGED SeqFrame

\* state.get(key)
SeqGet(key) ==
    /\ Record("get", key, None, DictGet(kv, key, None))
    /\ UNCHANGED <<kv, kvSensors, written>>
    /\ UNCHANGED SeqFrame

\* state.update_sensor_status(sensor, status)
SeqUpdateSensorStatus(sensor, status) ==
    /\ kvSensors' = ApplySensorUpdate(kvSensors, sensor, status)
    /\ written' = written \cup {sensor}
    /\ Record("update_sensor_status", sensor, status, None)
    /\ UNCHANGED kv
    /\ UNCHANGED SeqFrame

\* state.get_sensor_status(sensor)
SeqGetSensorStatus(sensor) ==
    /\ Record("get_sensor_status", sensor, None, SensorStatusOf(kvSensors, sensor))
    /\ UNCHANGED <<kv, kvSensors, written>>
    /\ UNCHANGED SeqFrame

\* state.reset()
SeqReset ==
    /\ kv' = ApplyReset(kv)
    /\ kvSensors' = ResetSensors
    /\ written' = {}
    /\ Record("reset", None, None, None)
    /\ UNCHANGED SeqFrame

SeqStoreNext ==
    \/ \E i \in SeqUpdateInputs : SeqUpdate(i[1], i[2])
    \/ \E k \in SeqGetInputs : SeqGet(k)
    \/ \E i \in SeqSensorUpdateInputs : SeqUpdateSensorStatus(i[1], i[2])
    \/ \E k \in SeqSensorGetInputs : SeqGetSensorStatus(k)
    \/ SeqReset

SeqStoreSpec == InitAvailable /\ [][SeqStoreNext]_vars

\* C14: get(key) right after update(key, value) returns value, for every
\* key and value and from every earlier state of the store; for phase this
\* covers every ordered pair of phase values.
C14_GetAfterUpdate ==
    [][(call'.op = "get" /\ call.op = "update" /\ call'.key = call.key)
          => call'.res = call.val]_vars

\* reward was written and read back while a result and an extra key are in
\* the store
C14_Witness ==
    /\ call.op = "get" /\ call.key = "phase" /\ call.res = "reward"
    /\ prevCall.op = "update" /\ prevCall.key = "phase" /\ prevCall.val = "reward"
    /\ kv["last_classification"] = "blue"
    /\ "test_key" \in DOMAIN kv

\* the keys of the default snapshot
DefaultKeys == {"phase", "last_classification", "last_classification_ts", "reward",
                "system_status", "last_disposal", "sensor_status"}

C18_SensorStatusRoundTrip ==
    [][/\ (call'.op = "get_sensor_status" /\ call.op = "update_sensor_status"
             /\ call'.key = call.key)
          => call'.res = call.val
       /\ call'.op = "update_sensor_status"
          => /\ kv' = kv
             /\ DOMAIN kvSensors' = DOMAIN kvSensors \cup {call'.key}
             /\ \A s \in DOMAIN kvSensors \ {call'.key} : kvSensors'[s] = kvSensors[s]
             /\ kvSensors'[call'.key] = call'.val
       /\ (call'.op = "get_sensor_status" /\ call'.key \notin written)
          => call'.res = FALSE]_vars

\* a sensor outside the defaults was set and read back while blue_bin is set
C18_Witness ==
    /\ call.op = "get_sensor_status" /\ call.key = "lid" /\ call.res = TRUE
    /\ prevCall.op = "update_sensor_status" /\ prevCall.key = "lid"
    /\ kvSensors["blue_bin"] = TRUE

----------------------------------------------------------------------------
(* ClassifierSpec: ClassificationManager.process_image_with_feedback,       *)
(* src/core/ai_classifier.py                                                *)

ClassifierFrame == <<hwVars, kvVars, dispVars, loopVars>>

\* YOLOClassifier.classify: the class of the best prediction mapped through
\* TRASH_DICT, "" for an unknown class, no prediction or an exception
YoloClassify(resp) ==
    IF resp \in {"no_predictions", "exception"} THEN ""
    ELSE DictGet(TRASH_DICT, resp, "")

\* `result and result in TrashClassification.VALID_COLORS`
ValidResult(r) == r # "" /\ r \in VALID_COLORS

\* one pass of the retry loop of GPTClassifier.classify returns the label
\* only when the status is 200, the content parses and the label is valid
GptAccepts(resp) == resp \in VALID_COLORS

\* variant: the retry loop runs once more than max_retries
MoreAttempts_OneMore(n) == n <= max_retries

\* `for attempt in range(max_retries)`
MoreAttempts(n) == n < max_retries

\* process_image_with_feedback is awaited for a new image; classify_async
\* hands HybridClassifier.classify to the default executor
ProcessImage ==
    /\ cpc \in {"idle", "raised", "returned"}
    /\ cpc' = "yolo"
    /\ responses' = <<>>
    /\ attempt' = 0
    /\ backoffs' = 0
    /\ yolo_result' = None
    /\ gpt_result' = None
    /\ outcome' = None
    /\ UNCHANGED ClassifierFrame

\* HybridClassifier.classify: yolo_result = self.yolo_classifier.classify(image),
\* one call of the YOLO service
YoloInfer(resp) ==
    /\ cpc = "yolo"
    /\ responses' = Append(responses, resp)
    /\ yolo_result' = YoloClassify(resp)
    /\ cpc' = IF ValidResult(YoloClassify(resp)) THEN "record" ELSE "gpt"
    /\ UNCHANGED <<attempt, backoffs, gpt_result, outcome>>
    /\ UNCHANGED ClassifierFrame

\* GPTClassifier.classify: one pass of the retry loop; a pass that fails goes
\* straight to the next one (`continue`), without sleeping; after the last
\* pass classify returns ""
GptAttempt(resp) ==
    /\ cpc = "gpt"
    /\ MoreAttempts(attempt)
    /\ attempt' = attempt + 1
    /\ responses' = IF resp = EncodeError THEN responses ELSE Append(responses, resp)
    /\ IF resp # EncodeError /\ GptAccepts(resp)
         THEN gpt_result' = resp /\ cpc' = "record"
         ELSE IF MoreAttempts(attempt + 1)
                THEN gpt_result' = gpt_result /\ cpc' = "gpt"
                ELSE gpt_result' = "" /\ cpc' = "record"
    /\ UNCHANGED <<backoffs, yolo_result, outcome>>
    /\ UNCHANGED ClassifierFrame

\* HybridClassifier.classify builds classification_record on every path
\* (yolo, gpt, gpt failed, hybrid failed); its timestamp calls
\* asyncio.get_event_loop() in the executor thread, which has no event loop:
\* RuntimeError, which classify_async and process_image_with_feedback let
\* through.  The statements after `await self.classifier.classify_async`
\* (LED feedback, asyncio.sleep(0.5), return result) are never reached.
RecordClassification ==
    /\ cpc = "record"
    /\ cpc' = "raised"
    /\ outcome' = "RuntimeError"
    /\ UNCHANGED <<responses, attempt, backoffs, yolo_result, gpt_result>>
    /\ UNCHANGED ClassifierFrame

ClassifierNext ==
    \/ ProcessImage
    \/ \E resp \in YoloResponses : YoloInfer(resp)
    \/ \E resp \in GptResponses \cup {EncodeError} : GptAttempt(resp)
    \/ RecordClassification

ClassifierSpec == InitAvailable /\ [][ClassifierNext]_vars

\* the call of process_image_with_feedback is over
ProcessOver == cpc \in {"returned", "raised"}

\* C19: whatever the external classifiers do, process ends by returning
\* blue, yellow, brown or the empty string.
C19_ProcessReturnsCategoryOrEmpty ==
    ProcessOver => (cpc = "returned" /\ outcome \in VALID_COLORS \cup {""})

\* every external call made for this image answered with a label outside
\* the categories
AlwaysInvalidLabel ==
    /\ Len(responses) > 0
    /\ responses[1] = "UNKNOWN"
    /\ \A i \in 2..Len(responses) : responses[i] = "purple"

ExternalCallRaised == \E i \in 1..Len(responses) : responses[i] = "exception"

\* C21: an exception of an external call is caught and counts as one failed
\* attempt, the remaining attempts are still made, and process ends by
\* returning a category or the empty string.
C21_ExternalExceptionContained ==
    /\ [][(cpc = "gpt" /\ Len(responses') > Len(responses)
             /\ responses'[Len(responses')] = "exception")
            => /\ attempt' = attempt + 1
               /\ cpc' = IF attempt' < max_retries THEN "gpt" ELSE "record"]_vars
    /\ [][(cpc = "yolo" /\ Len(responses') > Len(responses)
             /\ responses'[Len(responses')] = "exception")
            => cpc' = "gpt"]_vars
    /\ []((ExternalCallRaised /\ ProcessOver)
            => (cpc = "returned" /\ outcome \in VALID_COLORS \cup {""}))

----------------------------------------------------------------------------
(* Properties of LocalState under concurrent callers *)

\* the statements inside `with self._lock`
BodyPcs == {"upd_write", "upd_clear_lc", "upd_clear_ts", "get_read",
            "sens_write", "sens_read", "reset_write"}

\* thread t is inside update("phase", "idle")
InIdleUpdate(t) ==
    /\ th[t].op = "update" /\ th[t].key = "phase" /\ th[t].val = "idle"
    /\ th[t].pc \in {"upd_write", "upd_clear_lc", "upd_clear_ts"}

\* C13: update("phase", "idle") leaves phase = idle with last_classification
\* and last_classification_ts None whatever they were, all under one hold of
\* the lock; no other thread is at a statement of an accessor meanwhile, so
\* none reads the new phase with the old classification; applying the update
\* again changes nothing.
C13_IdleClearsClassification ==
    /\ [][\A t \in Threads :
            (InIdleUpdate(t) /\ th'[t].pc = "done")
               => /\ kv'["phase"] = "idle"
                  /\ kv'["last_classification"] = None
                  /\ kv'["last_classification_ts"] = None
                  /\ lock = t
                  /\ ApplyUpdate(kv', "phase", "idle") = kv']_vars
    /\ [](\A t \in Threads :
            InIdleUpdate(t)
               => /\ lock = t
                  /\ \A u \in Threads \ {t} : th[u].pc \notin BodyPcs)

\* idle is written, the old classification and timestamp are still in the
\* dict, and a reader is blocked on the lock
C13_Witness ==
    \E t, u \in Threads :
        /\ InIdleUpdate(t) /\ th[t].pc = "upd_clear_lc"
        /\ kv["phase"] = "idle"
        /\ kv["last_classification"] = "blue"
        /\ kv["last_classification_ts"] = "t1"
        /\ th[u].pc = "wait" /\ th[u].op = "get"

\* C16: the accessors run one at a time, in the order in which they took
\* the lock: whenever the lock is free the store holds what the calls made
\* so far give when applied whole in that order, so the last update of a
\* key to take the lock decides its value and no update is lost.
C16_SerializedByLock ==
    /\ \A t \in Threads : th[t].pc \in BodyPcs => lock = t
    /\ lock = 0 => (kv = ser /\ kvSensors = serSensors)

\* two threads have each completed an update of a different key and both
\* values are in the store
C16_Witness ==
    \E t, u \in Threads :
        /\ th[t].pc = "done" /\ th[t].op = "update"
        /\ th[t].key = "last_classification"
        /\ th[u].pc = "done" /\ th[u].op = "update"
        /\ th[u].key = "last_classification_ts"
        /\ kv["last_classification"] = "blue"
        /\ kv["last_classification_ts"] = "t1"
        /\ kv["phase"] = "processing"
        /\ lock = 0

\* C17: whoever reads or writes the store's data holds the lock, the caller
\* reading a dict returned by get included.
C17_NoAccessOutsideLock ==
    \A t \in Threads : th[t].pc \in BodyPcs \cup {"deref"} => lock = t

\* ---------------------------------------------------------------------
\* SimpleMediaDisplay driven call by call from the main thread: start,
\* tick, show_image, set_acc and stop, while other components write the
\* phase.  The HardwareLoop and its LED strip exist, so an LED update of
\* the display reaches the strip; every image file is on disk, so every
\* display state has a preloaded surface.
\* ---------------------------------------------------------------------

\* what the display and a phase writer never touch
DisplayFrame == <<reward, sensor_status,
                  componentsAvailable, pc, binIdx, rd, wpc, wres, timers,
                  dispatched, lcWrites, resultEntries, kvVars, clVars,
                  loopVars>>

\* DisplayConfig.IMAGE_MAPPING: the display states that have an image
image_mapping == 0..11

\* a state number that is no key of IMAGE_MAPPING
MissingState == 999

\* phases written while the display runs: by the HardwareLoop, and
\* ("captured") by the capture endpoint
DisplayPhases == {"idle", "processing", "blue_trash", "reward", "incorrect",
                  "error", "captured"}

\* state numbers handed to show_image and set_acc
StateArgs == {PROCESSING, MissingState}

\* how _recover_display's reinitialization can end: with a screen, without
\* one, or with pygame.display.quit raising
ReinitOutcomes == {"ok", "no_screen", "quit_raised"}

\* what can happen while tick renders a video frame
VideoRender == {"too_early", "eos_rewind", "eos_reopen", "read_raises",
                "convert_raises", "draw_ok", "surface_raises", "flip_raises"}

\* what can happen while tick renders a preloaded image
ImageRender == {"draw_ok", "surface_raises", "flip_raises"}

\* tick's table phase_to_state, IDLE for a phase it does not list
phase_to_state_ErrorTimeout(p) ==
    CASE p = "idle"              -> IDLE
      [] p = "processing"        -> PROCESSING
      [] p = "show_trash"        -> SHOW_TRASH
      [] p = "user_confirmation" -> USER_CONFIRMATION
      [] p = "blue_trash"        -> THROW_BLUE
      [] p = "yellow_trash"      -> THROW_YELLOW
      [] p = "brown_trash"       -> THROW_BROWN
      [] p = "success"           -> SUCCESS
      [] p = "reward"            -> REWARD
      [] p = "qrcode"            -> QR_CODES
      [] p = "incorrect"         -> INCORRECT
      [] p = "timeout"           -> TIMEOUT
      [] p = "error"             -> TIMEOUT
      [] p = "qr_codes"          -> QR_CODES
      [] OTHER                   -> IDLE
phase_to_state(p) ==
    CASE p = "idle"              -> IDLE
      [] p = "processing"        -> PROCESSING
      [] p = "show_trash"        -> SHOW_TRASH
      [] p = "user_confirmation" -> USER_CONFIRMATION
      [] p = "blue_trash"        -> THROW_BLUE
      [] p = "yellow_trash"      -> THROW_YELLOW
      [] p = "brown_trash"       -> THROW_BROWN
      [] p = "success"           -> SUCCESS
      [] p = "reward"            -> REWARD
      [] p = "qrcode"            -> QR_CODES
      [] p = "incorrect"         -> INCORRECT
      [] p = "timeout"           -> TIMEOUT
      [] p = "error"             -> USER_CONFIRMATION
      [] p = "qr_codes"          -> QR_CODES
      [] OTHER                   -> IDLE

\* _update_led_color_for_state's table state_colors, off for a state it
\* does not list
state_colors(s) ==
    CASE s = IDLE              -> "off"
      [] s = PROCESSING        -> "white"
      [] s = SHOW_TRASH        -> "white"
      [] s = USER_CONFIRMATION -> "red"
      [] s = SUCCESS           -> "green"
      [] s = QR_CODES          -> "green"
      [] s = REWARD            -> "green"
      [] s = INCORRECT         -> "red"
      [] s = TIMEOUT           -> "red"
      [] s = THROW_YELLOW      -> "yellow"
      [] s = THROW_BLUE        -> "blue"
      [] s = THROW_BROWN       -> "brown"
      [] OTHER                 -> "off"

\* display_initialized after _recover_display got past its rate limit
Reinitialized(reinit) ==
    CASE reinit = "ok"          -> TRUE
      [] reinit = "no_screen"   -> FALSE
      [] reinit = "quit_raised" -> display_initialized

\* variant of start(): the phase is written idle as well
Start_WritesIdle ==
    /\ is_running' = TRUE
    /\ led' = state_colors(IDLE)
    /\ phase' = "idle"
    /\ lastOp' = [NoOp EXCEPT !.name = "start", !.led = 1, !.outcome = "returned"]
    /\ UNCHANGED <<acc, display_initialized, current_mode, needs_clear,
                   video_path, video_cap, recent_error, lastRead,
                   last_classification, DisplayFrame>>

\* start(): the display runs and the IDLE colour is written
Start ==
    /\ is_running' = TRUE
    /\ led' = state_colors(IDLE)
    /\ lastOp' = [NoOp EXCEPT !.name = "start", !.led = 1, !.outcome = "returned"]
    /\ UNCHANGED <<phase, acc, display_initialized, current_mode, needs_clear,
                   video_path, video_cap, recent_error, lastRead, last_classification, DisplayFrame>>

\* stop(): the display no longer runs and the idle video is closed
Stop ==
    /\ is_running' = FALSE
    /\ video_cap' = FALSE
    /\ lastOp' = [NoOp EXCEPT !.name = "stop", !.outcome = "returned"]
    /\ UNCHANGED <<phase, led, acc, display_initialized, current_mode,
                   needs_clear, video_path, recent_error, lastRead, last_classification, DisplayFrame>>

\* tick(): `render` is what happens while the frame is rendered, `reinit`
\* how the reinitialization ends, `opened` whether the idle video opens
\* (both fixed when the tick makes no such call)
Tick(render, reinit, opened) ==
    IF ~is_running \/ ~display_initialized
    THEN /\ lastOp' = [NoOp EXCEPT !.name = "tick", !.outcome = "returned"]
         /\ UNCHANGED <<phase, led, acc, is_running, display_initialized,
                        current_mode, needs_clear, video_path, video_cap,
                        recent_error, lastRead, last_classification, DisplayFrame>>
    ELSE LET desired  == phase_to_state(phase)
             changed  == desired # acc
             toVideo  == changed /\ desired = IDLE /\ video_path
                            /\ current_mode # "video"
             toImage  == changed /\ ~(desired = IDLE /\ video_path)
             mode1    == IF toVideo THEN "video"
                         ELSE IF toImage THEN "image" ELSE current_mode
             cap1     == IF toVideo THEN (video_cap \/ opened)
                         ELSE IF toImage /\ current_mode = "video" THEN FALSE
                         ELSE video_cap
             clear1   == IF toVideo \/ toImage THEN TRUE ELSE needs_clear
             fault    == render \in {"surface_raises", "flip_raises"}
             attempt1 == fault /\ ~recent_error
         IN  /\ render \in (IF mode1 = "video" /\ cap1 THEN VideoRender
                                                        ELSE ImageRender)
             /\ (~attempt1) => reinit = "ok"
             /\ (~(toVideo /\ ~video_cap) /\ render # "eos_reopen") => opened
             /\ acc' = desired
             /\ led' = IF changed THEN state_colors(desired) ELSE led
             /\ current_mode' = mode1
             /\ video_cap' = IF render = "eos_reopen" THEN opened ELSE cap1
             /\ needs_clear' = IF render \in {"draw_ok", "flip_raises"}
                               THEN FALSE ELSE clear1
             /\ display_initialized' = IF attempt1 THEN Reinitialized(reinit)
                                       ELSE display_initialized
             /\ recent_error' = (recent_error \/ attempt1)
             /\ lastRead' = phase
             /\ lastOp' = [NoOp EXCEPT
                   !.name = "tick",
                   !.read = phase,
                   !.prev = lastRead,
                   !.led = IF changed THEN 1 ELSE 0,
                   !.switched = (mode1 # current_mode),
                   !.dirty = (toVideo \/ toImage),
                   !.attempts = IF attempt1 THEN 1 ELSE 0,
                   !.skipped = (fault /\ recent_error),
                   !.recovered = (attempt1 /\ reinit = "ok"),
                   !.drawn = IF render = "draw_ok" THEN 1 ELSE 0,
                   !.outcome = IF render \in {"read_raises", "convert_raises"}
                               THEN "raised" ELSE "returned"]
             /\ UNCHANGED <<phase, is_running, video_path, last_classification, DisplayFrame>>

\* variant: the requested state is selected even when it has no image
ShowImage_AlwaysSelect(n, force, reinit) ==
    LET recovered == reinit = "ok"
        ok == (~force \/ recovered) /\ n \in image_mapping
    IN  /\ reinit = "quit_raised" => display_initialized
        /\ (~force) => reinit = "ok"
        /\ acc' = n
        /\ display_initialized' = IF force THEN Reinitialized(reinit)
                                  ELSE display_initialized
        /\ recent_error' = (recent_error \/ force)
        /\ lastOp' = [NoOp EXCEPT
              !.name = "show_image",
              !.arg = n,
              !.force = force,
              !.attempts = IF force THEN 1 ELSE 0,
              !.recovered = (force /\ recovered),
              !.res = IF ok THEN "True" ELSE "False",
              !.outcome = "returned"]
        /\ UNCHANGED <<phase, led, is_running, current_mode, needs_clear,
                       video_path, video_cap, lastRead, last_classification, DisplayFrame>>

\* show_image(state_number, force_recovery)
ShowImage(n, force, reinit) ==
    LET recovered == reinit = "ok"
        ok == (~force \/ recovered) /\ n \in image_mapping
    IN  /\ reinit = "quit_raised" => display_initialized
        /\ (~force) => reinit = "ok"
        /\ acc' = IF ok THEN n ELSE acc
        /\ display_initialized' = IF force THEN Reinitialized(reinit)
                                  ELSE display_initialized
        /\ recent_error' = (recent_error \/ force)
        /\ lastOp' = [NoOp EXCEPT
              !.name = "show_image",
              !.arg = n,
              !.force = force,
              !.attempts = IF force THEN 1 ELSE 0,
              !.recovered = (force /\ recovered),
              !.res = IF ok THEN "True" ELSE "False",
              !.outcome = "returned"]
        /\ UNCHANGED <<phase, led, is_running, current_mode, needs_clear,
                       video_path, video_cap, lastRead, last_classification, DisplayFrame>>

\* set_acc(value): a state with an image is selected and its colour written
SetAcc(value) ==
    /\ acc' = IF value \in image_mapping THEN value ELSE acc
    /\ led' = IF value \in image_mapping THEN state_colors(value) ELSE led
    /\ lastOp' = [NoOp EXCEPT
          !.name = "set_acc",
          !.arg = value,
          !.led = IF value \in image_mapping THEN 1 ELSE 0,
          !.outcome = "returned"]
    /\ UNCHANGED <<phase, is_running, display_initialized, current_mode,
                   needs_clear, video_path, video_cap, recent_error, lastRead,
                   last_classification, DisplayFrame>>

\* another component writes a new phase (state.update("phase", p))
PhaseWritten(p) ==
    /\ p # phase
    /\ phase' = p
    /\ last_classification' = IF p = "idle" THEN None ELSE last_classification
    /\ UNCHANGED <<led, dispVars, DisplayFrame>>

\* five seconds pass since the last recovery attempt
RecoveryIntervalPasses ==
    /\ recent_error
    /\ recent_error' = FALSE
    /\ UNCHANGED <<phase, led, acc, is_running, display_initialized,
                   current_mode, needs_clear, video_path, video_cap, lastOp,
                   lastRead, last_classification, DisplayFrame>>

DisplayNext ==
    \/ Start
    \/ Stop
    \/ \E render \in VideoRender, reinit \in ReinitOutcomes, opened \in BOOLEAN :
          Tick(render, reinit, opened)
    \/ \E n \in StateArgs, force \in BOOLEAN, reinit \in ReinitOutcomes :
          ShowImage(n, force, reinit)
    \/ \E value \in StateArgs : SetAcc(value)
    \/ \E p \in DisplayPhases : PhaseWritten(p)
    \/ RecoveryIntervalPasses

\* the state after construction, whatever _init_display and the video
\* lookup gave
DisplayAnyInit ==
    /\ CoreInit
    /\ componentsAvailable = TRUE
    /\ \E ok \in BOOLEAN, video \in BOOLEAN : DisplayInit(ok, video)

DisplaySpec == DisplayAnyInit /\ [][DisplayNext]_vars

\* the latest display call was a tick that read the phase
TickRead == lastOp.name = "tick" /\ lastOp.read # None

\* ---------------------------------------------------------------------
\* Properties of the display
\* ---------------------------------------------------------------------

\* C22: a tick that reads the phase the previous tick read issues no lighting
\* write and switches no render mode.
C22_SamePhaseNoRewrite ==
    (TickRead /\ lastOp.prev = lastOp.read)
        => (lastOp.led = 0 /\ ~lastOp.switched)

\* the render mode of a display state: the looping video for IDLE when the
\* idle video exists, a still image otherwise
ModeOf(s) == IF s = IDLE /\ video_path THEN "video" ELSE "image"

\* C23: a tick that reads a phase different from the one the previous tick
\* read leaves the display in the render mode of the new phase, issues the
\* lighting colour of the new phase exactly once, and marks the frame dirty.
C23_PhaseChangeApplied ==
    (TickRead /\ lastOp.prev # None /\ lastOp.prev # lastOp.read)
        => /\ current_mode = ModeOf(phase_to_state(lastOp.read))
           /\ lastOp.led = 1
           /\ led = state_colors(phase_to_state(lastOp.read))
           /\ lastOp.dirty

\* C24: a display call issues a lighting write only when it is a tick that
\* read a phase different from the one the previous tick read.
C24_LightingOnlyOnPhaseChange ==
    lastOp.led > 0 => (TickRead /\ lastOp.read # lastOp.prev)

\* C25: what a tick presents depends on the phase it read alone: the state
\* selected, the render mode (the looping video exactly for the idle state
\* when a video exists) and the lighting colour are those of that phase,
\* whatever happened before.
C25_PresentationFunctionOfPhase ==
    TickRead
        => /\ acc = phase_to_state(lastOp.read)
           /\ current_mode = ModeOf(phase_to_state(lastOp.read))
           /\ led = state_colors(phase_to_state(lastOp.read))

\* C26: whatever fault occurs while a frame is read, converted or drawn,
\* tick returns normally.
C26_TickNeverRaises ==
    lastOp.name = "tick" => lastOp.outcome = "returned"

\* the latest display call was a tick in which drawing the frame raised
DrawFault == lastOp.name = "tick" /\ (lastOp.attempts > 0 \/ lastOp.skipped)

\* a tick is made
TickStep ==
    \E render \in VideoRender, reinit \in ReinitOutcomes, opened \in BOOLEAN :
        Tick(render, reinit, opened)

\* C27: on a fault during drawing tick makes at most one reinitialization
\* attempt, makes none when the previous attempt was less than 5 s earlier,
\* and after a successful reinitialization re-issues the current frame once.
C27_RecoveryOnceRateLimitedRedraw ==
    /\ [](DrawFault => lastOp.attempts <= 1)
    /\ [][(recent_error /\ TickStep)
             => (lastOp'.attempts = 0
                   /\ display_initialized' = display_initialized)]_vars
    /\ []((DrawFault /\ lastOp.recovered) => lastOp.redrawn = 1)

\* the display state the phases are to show: the throw screens for the result
\* phases, the try-again screen for error, IDLE for a phase with no screen
MappedState(p) ==
    CASE p = "idle"         -> 0
      [] p = "processing"   -> 1
      [] p = "blue_trash"   -> 10
      [] p = "yellow_trash" -> 9
      [] p = "brown_trash"  -> 11
      [] p = "error"        -> 3
      [] p = "incorrect"    -> 7
      [] p = "reward"       -> 6
      [] OTHER              -> 0

ShowImageReturned == lastOp.name = "show_image" /\ lastOp.outcome = "returned"

\* C29: show_image(n) returns True exactly when n is a key of the image
\* mapping; when it returns False the selected display state is unchanged
\* and no exception is raised.
C29_ShowImageTrueIffKey ==
    /\ [](ShowImageReturned
            => (lastOp.res = "True" <=> lastOp.arg \in image_mapping))
    /\ [][(\E n \in StateArgs, force \in BOOLEAN, reinit \in ReinitOutcomes :
              ShowImage(n, force, reinit))
            => /\ lastOp'.outcome = "returned"
               /\ lastOp'.res = "False" => acc' = acc]_vars

\* C29 as it holds: without force_recovery, or when the forced
\* reinitialization succeeded, show_image(n) returns True exactly when n is a
\* key of the image mapping; a forced call whose reinitialization fails
\* returns False; when it returns False the selected display state is
\* unchanged and no exception is raised.
C29_ShowImageTrueIffKeyAndRecovered ==
    /\ []((ShowImageReturned /\ (~lastOp.force \/ lastOp.recovered))
            => (lastOp.res = "True" <=> lastOp.arg \in image_mapping))
    /\ []((ShowImageReturned /\ lastOp.force /\ ~lastOp.recovered)
            => lastOp.res = "False")
    /\ [][(\E n \in StateArgs, force \in BOOLEAN, reinit \in ReinitOutcomes :
              ShowImage(n, force, reinit))
            => /\ lastOp'.outcome = "returned"
               /\ lastOp'.res = "False" => acc' = acc]_vars

\* show_image(999) returned False after a tick had selected the try-again
\* state, which is still selected
C29_Witness ==
    /\ ShowImageReturned
    /\ lastOp.arg = MissingState
    /\ ~lastOp.force
    /\ lastOp.res = "False"
    /\ acc = USER_CONFIRMATION

\* ---------------------------------------------------------------------
\* The hardware threads with hardware calls that can raise: GPIO.input is
\* called unguarded by ProximitySensors.detect_object, the LED strip is
\* written unguarded after the processing write, and the first handler above
\* both is the `except Exception` of the polling loop.
\* ---------------------------------------------------------------------

\* detect_object_proximity raises (it is called only when the phase read is
\* idle): the handler prints, sleeps 1 s and the loop starts its next
\* iteration
PollObjectFails ==
    /\ pc = "poll"
    /\ phase = "idle"
    /\ rd' = NoRead
    /\ pc' = "poll"
    /\ binIdx' = 1
    /\ UNCHANGED store
    /\ UNCHANGED <<wpc, timers>>
    /\ UNCHANGED PollFrame
    /\ UNCHANGED hist

\* the read of one bin sensor in _check_bin_sensors raises: nothing is
\* recorded for it, the rest of _check_bin_sensors is abandoned and the loop
\* starts its next iteration
CheckBinFails ==
    /\ pc = "bins"
    /\ rd' = NoRead
    /\ pc' = "poll"
    /\ binIdx' = 1
    /\ UNCHANGED store
    /\ UNCHANGED <<wpc, timers>>
    /\ UNCHANGED PollFrame
    /\ UNCHANGED hist

SensorFault ==
    \/ PollObjectFails
    \/ CheckBinFails

\* led_strip.set_color_all((255, 255, 255)) raises after the processing
\* write: _process_trash_detection is not called, the handler prints, sleeps
\* 1 s and the loop starts its next iteration
ShowWhiteFails ==
    /\ pc = "white"
    /\ pc' = "poll"
    /\ binIdx' = 1
    /\ UNCHANGED store
    /\ UNCHANGED <<rd, wpc, timers>>
    /\ UNCHANGED PollFrame
    /\ UNCHANGED hist

FaultNext ==
    \/ Next
    \/ SensorFault
    \/ ShowWhiteFails

FaultSpec == Init /\ [][FaultNext]_vars

\* FaultSpec with the threads scheduled by the operating system: each one
\* that can take a step eventually does
FaultLiveSpec ==
    /\ Init /\ [][FaultNext]_vars
    /\ WF_vars(PollingThread \/ SensorFault \/ ShowWhiteFails)
    /\ WF_vars(WorkerThread)
    /\ WF_vars(TimerThread)

\* C30: a sensor read that raises is treated as "no detection": the polling
\* loop goes on, the phase is unchanged, the failed sensor's flag is recorded
\* as False, and the remaining sensors are still read in that iteration.
C30_SensorFailureIsNoDetection ==
    /\ [][PollObjectFails
            => /\ phase' = phase
               /\ sensor_status'["object_detected"] = FALSE
               /\ pc' = "bins" /\ binIdx' = 1]_vars
    /\ [][CheckBinFails
            => /\ phase' = phase
               /\ sensor_status'[BinFlag(BinOrder[binIdx])] = FALSE
               /\ IF binIdx < Len(BinOrder)
                    THEN pc' = "bins" /\ binIdx' = binIdx + 1
                    ELSE pc' = "poll" /\ binIdx' = 1]_vars

\* C31: whatever fails after the processing write, processing always leads
\* to a result phase or to error.
C31_ProcessingLeadsToResultOrError ==
    (phase = "processing") ~> (phase \in trash_phases \cup {"error"})

\* ---------------------------------------------------------------------
\* HardwareLoop started and stopped: start() and stop() called on the same
\* HardwareLoop while the threads start() has spawned run _hardware_loop.
\* A thread is at its initial delay ("delay"), at `while self.is_running`
\* ("test"), inside an iteration ("body"), at the sleep that ends it
\* ("sleep"), or has returned ("exited").
\* ---------------------------------------------------------------------

\* what start(), stop() and the loop's entry and exit never touch
LifecycleFrame == <<reward, sensor_status, componentsAvailable, pc, binIdx,
                    rd, wpc, wres, timers, dispatched, lcWrites,
                    resultEntries, kvVars, clVars, dispVars>>

\* start(): nothing when is_running is set, else set it and spawn a thread
LoopStart ==
    /\ IF hl_is_running
         THEN UNCHANGED loopVars
         ELSE /\ Len(pollers) < MaxPollers
              /\ hl_is_running' = TRUE
              /\ pollers' = Append(pollers, "delay")
    /\ UNCHANGED <<phase, last_classification, led, LifecycleFrame>>

\* stop(): is_running is cleared and the LEDs are; the thread is not joined
LoopStop ==
    /\ hl_is_running' = FALSE
    /\ led' = "off"
    /\ UNCHANGED <<phase, last_classification, pollers, LifecycleFrame>>

\* _hardware_loop after its initial delay: state.update("phase", "idle")
PollerInit(i) ==
    /\ i <= Len(pollers)
    /\ pollers[i] = "delay"
    /\ phase' = "idle"
    /\ last_classification' = None
    /\ pollers' = [pollers EXCEPT ![i] = "test"]
    /\ UNCHANGED <<led, hl_is_running, LifecycleFrame>>

\* `while self.is_running:`
PollerTest(i) ==
    /\ i <= Len(pollers)
    /\ pollers[i] = "test"
    /\ pollers' = [pollers EXCEPT ![i] = IF hl_is_running THEN "body"
                                                         ELSE "exited"]
    /\ UNCHANGED <<phase, last_classification, led, hl_is_running,
                   LifecycleFrame>>

\* one iteration of the loop is made, up to its closing sleep
PollerIterate(i) ==
    /\ i <= Len(pollers)
    /\ pollers[i] = "body"
    /\ pollers' = [pollers EXCEPT ![i] = "sleep"]
    /\ UNCHANGED <<phase, last_classification, led, hl_is_running,
                   LifecycleFrame>>

\* time.sleep(0.1) is over
PollerWakes(i) ==
    /\ i <= Len(pollers)
    /\ pollers[i] = "sleep"
    /\ pollers' = [pollers EXCEPT ![i] = "test"]
    /\ UNCHANGED <<phase, last_classification, led, hl_is_running,
                   LifecycleFrame>>

LifecycleNext ==
    \/ LoopStart
    \/ LoopStop
    \/ \E i \in 1..MaxPollers : PollerInit(i)
    \/ \E i \in 1..MaxPollers : PollerTest(i)
    \/ \E i \in 1..MaxPollers : PollerIterate(i)
    \/ \E i \in 1..MaxPollers : PollerWakes(i)

LifecycleSpec == InitAvailable /\ [][LifecycleNext]_vars

\* the threads that are executing the polling loop
Polling == {i \in 1..Len(pollers) : pollers[i] \in {"test", "body", "sleep"}}

\* C32: whatever start() and stop() calls are made, at most one thread is
\* executing the polling loop.
C32_SinglePollingThread == Cardinality(Polling) <= 1

\* a call of the display is made
DisplayCall ==
    \/ Start
    \/ Stop
    \/ TickStep
    \/ \E n \in StateArgs, force \in BOOLEAN, reinit \in ReinitOutcomes :
          ShowImage(n, force, reinit)
    \/ \E value \in StateArgs : SetAcc(value)

\* C33: no call of the display (tick, start, stop, show_image, set_acc, with
\* or without a recovery in it) changes phase, last_classification, reward or
\* a sensor flag: a step that changes one of them is no call of the display.
C33_DisplayNeverWritesStore ==
    [][(<<phase, last_classification, reward, sensor_status>>'
           # <<phase, last_classification, reward, sensor_status>>)
         => ~DisplayCall]_vars

\* start() has just been called after the display was stopped, while the
\* phase is a result phase
C33_Witness ==
    /\ lastOp.name = "start"
    /\ lastRead = "blue_trash"
    /\ phase = "blue_trash"

\* ---------------------------------------------------------------------
\* The hardware threads and the display together, in the order of the
\* lifespan: the display is started first, then the HardwareLoop runs while the
\* main thread ticks the display. Frames draw without a fault and no bin
\* sensor fires.
\* ---------------------------------------------------------------------

SystemNext ==
    \/ ~is_running /\ Start
    \/ is_running /\ Tick("draw_ok", "ok", TRUE)
    \/ is_running /\ \E obj \in BOOLEAN : PollObject(obj)
    \/ StartProcessing
    \/ MarkObjectDetected
    \/ ShowWhite
    \/ CaptureFailed
    \/ DispatchWorker
    \/ JoinFinished
    \/ JoinTimeout
    \/ AliveCheck
    \/ TimeoutError
    \/ TimeoutClear
    \/ CheckBin(FALSE)
    \/ WorkerThread

SystemSpec == InitAvailable /\ [][SystemNext]_vars

\* the colour that goes with a phase: the category colour in a result phase,
\* red in error and incorrect, off in idle
PhaseColour(p) ==
    CASE p = "blue_trash"   -> "blue"
      [] p = "yellow_trash" -> "yellow"
      [] p = "brown_trash"  -> "brown"
      [] p = "error"        -> "red"
      [] p = "incorrect"    -> "red"
      [] p = "idle"         -> "off"

\* nothing is in progress: the polling thread is between two iterations, no
\* worker and no timer is alive, and the running display has ticked since the
\* phase was written
Quiescent ==
    /\ pc = "poll"
    /\ ~WorkerAlive
    /\ LiveTimers = 0
    /\ is_running
    /\ TickRead
    /\ lastOp.read = phase

\* C34: whenever nothing is in progress, the lighting colour is the colour
\* of the current phase, however the lighting writes of the HardwareLoop and
\* of the display interleaved.
C34_LightingFollowsPhase ==
    (Quiescent /\ phase \in trash_phases \cup {"error", "incorrect", "idle"})
        => led = PhaseColour(phase)

\* ---------------------------------------------------------------------
\* Properties of a cycle as a whole
\* ---------------------------------------------------------------------

\* C35: whenever phase is idle, last_classification is None.
C35_IdleHasNoClassification ==
    phase = "idle" => last_classification = None

\* a reward timer has just written idle at the end of a cycle that had a result
C35_Witness ==
    /\ phase = "idle"
    /\ timers["r_reward"] > 0
    /\ last_classification = None

\* C36: in a result phase, last_classification is that phase's category.
C36_ResultPhaseHasItsClassification ==
    phase \in trash_phases => last_classification = phase_to_bin(phase)

\* a step that starts an auto_reset thread
TimerStarted == LiveTimers' > LiveTimers

\* a step that writes a scoring outcome
Scored == phase' \in {"reward", "incorrect"} /\ phase' # phase

\* C37: the bins are read in the order blue, yellow, brown; a cycle enters a
\* result phase at most once; an outcome is written only by the polling
\* thread, for the bin it has just read firing while phase was still a result
\* phase, and each outcome starts exactly one timer; a bin read while phase
\* is not a result phase changes nothing but its flag.
C37_OneOutcomeOneTimerPerCycle ==
    [][/\ (pc = "bins" /\ PollStep) =>
             /\ rd'.sensor = <<"blue", "yellow", "brown">>[binIdx]
             /\ (rd'.val /\ phase \in trash_phases) => (binIdx' = binIdx /\ pc' # "bins")
             /\ phase \notin trash_phases =>
                   /\ UNCHANGED <<phase, reward, last_classification, led, timers>>
                   /\ pc' \in {"bins", "poll"}
       /\ resultEntries' <= 1
       /\ Scored =>
             /\ pc \in {"rw_phase", "in_phase"}
             /\ phase \in trash_phases
             /\ rd = [sensor |-> <<"blue", "yellow", "brown">>[binIdx], val |-> TRUE]
             /\ resultEntries = 1
       /\ TimerStarted =>
             /\ pc \in {"rw_timer", "in_timer"}
             /\ phase \notin trash_phases
             /\ LiveTimers' = LiveTimers + 1
       /\ (pc \in {"rw_timer", "in_timer"} /\ PollStep) => TimerStarted]_vars

\* blue fired first in a poll with phase yellow_trash and decided incorrect;
\* yellow fired in the same poll and changed nothing but its flag
C37_Witness ==
    /\ phase = "incorrect"
    /\ pc = "bins"
    /\ binIdx = 3
    /\ rd = [sensor |-> "yellow", val |-> TRUE]
    /\ sensor_status["blue_bin"]
    /\ sensor_status["yellow_bin"]
    /\ last_classification = "yellow"
    /\ LiveTimers = 1
    /\ timers["i_idle"] = 1

\* C38: a result phase is left only by the polling thread's write of reward
\* or incorrect for a bin that fired; no timer, timeout, worker or object
\* trigger changes phase while it is a result phase.
C38_ResultPhaseLeftOnlyByBinTrigger ==
    [][(phase \in trash_phases /\ phase' # phase) =>
           /\ pc \in {"rw_phase", "in_phase"}
           /\ PollStep
           /\ rd.val
           /\ phase' \in {"reward", "incorrect"}]_vars

\* C39: the hybrid classifier stops at the first valid label: the GPT
\* classifier is called only when the YOLO result is empty or invalid and
\* only while no GPT attempt has returned a valid category, and a valid YOLO
\* category is what the call returns, without any GPT attempt.
C39_StopsAtFirstValidLabel ==
    /\ [][attempt' > attempt
            => /\ cpc = "gpt"
               /\ ~ValidResult(yolo_result)
               /\ gpt_result \notin VALID_COLORS]_vars
    /\ []((ProcessOver /\ ValidResult(yolo_result))
            => (cpc = "returned" /\ outcome = yolo_result /\ attempt = 0))

====
